---- MODULE Spec2Model ----
(***************************************************************************)
(* A model of APIRequest (src/src/api-request.ts): one logical operation   *)
(* of the Box SDK request engine.  An APIRequest instance issues a network *)
(* attempt (axios), classifies its outcome in _handleResponse, and either  *)
(* schedules a retry (setTimeout) or hands the outcome to _finish, which   *)
(* defers the callback to the next tick (process.nextTick).                *)
(*                                                                         *)
(* The event loop is modelled by three collections: the attempt in flight, *)
(* the pending retry timers and the pending next-tick tasks.  The          *)
(* collaborators the class calls back into ('response' listeners on the    *)
(* event bus, the custom retry strategy) are environment choices: each     *)
(* call may return or raise.                                               *)
(***************************************************************************)
EXTENDS Integers, Sequences, FiniteSets, TLC

\* ---------------------------------------------------------------------------
\* Bounds
\* ---------------------------------------------------------------------------

\* Largest config.numMaxRetries explored.
MaxRetriesBound == 2

\* Range of status codes the classifier is explored on.
MinStatus == 100
MaxStatus == 599

\* The number a retry strategy returns, the retry-after header of a response
\* that carries one (seconds), and config.retryIntervalMS.
StrategyDelayMS == 250
RetryAfterSeconds == 2
RetryIntervalMS == 2000

\* The latest clock reading explored (process.hrtime, in ms).
MaxClock == 2

\* ---------------------------------------------------------------------------
\* Program constants
\* ---------------------------------------------------------------------------

REMOVED_HEADER_MESSAGE == "[REMOVED BY SDK]"

HTTP_STATUS_CODE_SERVER_ERROR_BLOCK_RANGE == <<500, 599>>

INSUFFICIENT_STORAGE == 507
REQUEST_TIMEOUT == 408
TOO_MANY_REQUESTS == 429

JWT_GRANT_TYPE == "urn:ietf:params:oauth:grant-type:jwt-bearer"

\* retryableStatusCodes[s] is truthy exactly for the two keys that were set.
retryableStatusCodes(s) == s = REQUEST_TIMEOUT \/ s = TOO_MANY_REQUESTS

\* ---------------------------------------------------------------------------
\* Values
\* ---------------------------------------------------------------------------

\* Header values: "" is an absent (falsy) header.
AbsentHeader == ""
RealAuthorization == "Bearer token"
RealBoxApi == "shared_link=secret"

HeaderSets ==
    [Authorization : {AbsentHeader, RealAuthorization},
     BoxApi : {AbsentHeader, RealBoxApi}]

NoHeaders == [Authorization |-> AbsentHeader, BoxApi |-> AbsentHeader]

\* Status codes the modelled server answers with.
ServerStatuses == {200, 429, 503, 507}

\* The status of an error or outcome that has none (err.status undefined).
NoStatus == 0

NullResponse == [kind |-> "null", status |-> NoStatus, retryAfter |-> FALSE]

Response(s, ra) == [kind |-> "response", status |-> s, retryAfter |-> ra]

\* hasRequest: err.request has been set; it is then the very object
\* this.request (an alias, not a copy).
NullError ==
    [kind |-> "null", hasRequest |-> FALSE,
     response |-> NullResponse, status |-> NoStatus,
     maxRetriesExceeded |-> FALSE]

\* An Error object as it exists before _handleResponse decorates it.
\* kind: "temporary"  new Error(`${status} - ...`) made by _handleResponse
\*       "transport"  the rejection of axios (no response obtained)
\*       "thrown"     an exception raised by a listener or by the strategy
\*       "strategy"   an Error returned by the retry strategy
NewError(k) == [NullError EXCEPT !.kind = k]

\* asyncRequestTimer before its first assignment.
Unset == -1

\* The delay handed to setTimeout: where it came from and its value.  The
\* value is a term: <<ms>>, or the arguments of getRetryTimeout.
Delay(source, term) == [source |-> source, term |-> term]

\* getRetryTimeout(numRetries, retryIntervalMS) of util/exponential-backoff:
\* an exponential backoff seeded by the attempt count and the base interval,
\* with random jitter; kept as the term of its arguments.
getRetryTimeout(n, interval) == Delay("backoff", <<n, interval>>)

\* What a call of config.retryStrategy(retryOptions) can do: return a
\* number, return something that is neither a number nor an Error, return an
\* Error, or raise.
StrategyResults == {"number", "nonNumber", "Error", "throws"}

\* ---------------------------------------------------------------------------
\* Pure functions
\* ---------------------------------------------------------------------------

isTemporaryError_no507 (statusCode) ==
    IF /\ statusCode >= HTTP_STATUS_CODE_SERVER_ERROR_BLOCK_RANGE[1]
       /\ statusCode <= HTTP_STATUS_CODE_SERVER_ERROR_BLOCK_RANGE[2]
    THEN TRUE
    ELSE IF retryableStatusCodes(statusCode) THEN TRUE ELSE FALSE

isTemporaryError(statusCode) ==
    IF /\ statusCode # INSUFFICIENT_STORAGE
       /\ statusCode >= HTTP_STATUS_CODE_SERVER_ERROR_BLOCK_RANGE[1]
       /\ statusCode <= HTTP_STATUS_CODE_SERVER_ERROR_BLOCK_RANGE[2]
    THEN TRUE
    ELSE IF retryableStatusCodes(statusCode) THEN TRUE ELSE FALSE

\* Variant: the request options are not consulted.
isRequestRetryable_always(options) == TRUE

isRequestRetryable(options) == ~ options.formData

cleanSensitiveHeaders(headers) ==
    [headers EXCEPT
        !.BoxApi = IF @ # AbsentHeader THEN REMOVED_HEADER_MESSAGE ELSE @,
        !.Authorization = IF @ # AbsentHeader THEN REMOVED_HEADER_MESSAGE ELSE @]

\* ---------------------------------------------------------------------------
\* State
\* ---------------------------------------------------------------------------

VARIABLES
    config,            \* this.config: request options and retry policy
    isRetryable,       \* this.isRetryable
    callback,          \* this._callback: "undefined" or "callback"
    request,           \* this.request: [set, headers, stream]
    response,          \* this.response: the last response axios resolved with
    numRetries,        \* this.numRetries (undefined reads as 0: `|| 0`)
    asyncRequestTimer, \* module-level timer: Unset, or the clock reading
                       \* of the first callback-mode execute of the process
    phase,             \* "new" before execute; "started" afterwards
    inflight,          \* number of axios calls awaiting their outcome
    timers,            \* pending setTimeout(execute) tasks: their Delay
    ticks,             \* pending process.nextTick tasks: [err, response]
    delivered,         \* callback invocations so far: [err, response]
    rejected,          \* TRUE once a promise returned by execute rejected
    \* observations of the run (history)
    events,            \* 'response' events emitted by the latest step of
                       \* execute, in order: [err, response]
    numEvents,         \* number of 'response' events emitted so far
    attempts,          \* number of axios calls made so far
    numTimers,         \* number of setTimeout calls made so far
    outcome,           \* what the latest completed attempt obtained:
                       \* a response, or NullResponse for a transport failure
    numFailed,         \* completed attempts that obtained a temporary-error
                       \* response or no response at all
    raised,            \* TRUE once a listener or the strategy raised
    strategyCalls,     \* calls of config.retryStrategy made by the latest
                       \* step of execute: the retryOptions and the result
    now,               \* the clock (process.hrtime, in ms)
    executedAt,        \* the clock when the caller called execute
    \* classifier exploration
    statusCode,        \* the status given to isTemporaryError
    verdict            \* "none", "temporary" or "other"

vars == <<config, isRetryable, callback, request, response, numRetries,
          asyncRequestTimer, phase, inflight, timers, ticks, delivered,
          rejected, events, numEvents, attempts, numTimers, outcome,
          numFailed, raised, strategyCalls, now, executedAt,
          statusCode, verdict>>

Configs ==
    [numMaxRetries : 0..MaxRetriesBound,
     hasRetryStrategy : BOOLEAN,
     formData : BOOLEAN,
     grant_type : {"none", JWT_GRANT_TYPE},
     headers : HeaderSets,
     retryIntervalMS : {RetryIntervalMS}]

\* The part of the state a handler works on while it runs.
Machine ==
    [numRetries |-> numRetries, timers |-> timers, ticks |-> ticks,
     events |-> <<>>, numTimers |-> numTimers, raised |-> raised,
     delivered |-> delivered, strategyCalls |-> <<>>]

\* A handler returns normally, or an exception leaves it.
return(m) == [m |-> m, threw |-> FALSE]
throw(m) == [m |-> [m EXCEPT !.raised = TRUE], threw |-> TRUE]

\* ---------------------------------------------------------------------------
\* Handlers
\* ---------------------------------------------------------------------------

\* eventBus.emit('response', err, response)
emit(m, err, resp) ==
    [m EXCEPT !.events = Append(@, [err |-> err, response |-> resp])]

\* Variant: the timer repeats (setInterval), so it stays pending after it
\* has fired once.
setTimeout_repeating(m, retryTimeout) ==
    [m EXCEPT !.timers = Append(Append(@, retryTimeout), retryTimeout),
              !.numTimers = @ + 1]

\* setTimeout(this.execute.bind(this), retryTimeout)
setTimeout(m, retryTimeout) ==
    [m EXCEPT !.timers = Append(@, retryTimeout), !.numTimers = @ + 1]

\* retryTimeout = this.config.retryStrategy(retryOptions): the call is
\* recorded with its retryOptions and with what it did (sr).
retryStrategy(m, err, sr) ==
    [m EXCEPT !.strategyCalls = Append(@,
        [error |-> err,
         numRetryAttempts |-> m.numRetries,
         numMaxRetries |-> config.numMaxRetries,
         retryIntervalMS |-> config.retryIntervalMS,
         totalElapsedTimeMS |-> now - asyncRequestTimer,
         calledAt |-> now,
         result |-> sr])]

\* Variant: _finish invokes the callback itself, without process.nextTick.
_finish_sync(m, err, resp) ==
    [m EXCEPT !.delivered = Append(@,
        IF err.kind # "null"
        THEN [err |-> err, response |-> NullResponse]
        ELSE [err |-> NullError, response |-> resp])]

\* _finish queues the delivery; the callback runs in the next tick.
_finish(m, err, resp) ==
    [m EXCEPT !.ticks = Append(@, [err |-> err, response |-> resp])]

\* Variant: the grant type is never recognised, so a JWT request is retried
\* like any other.
isJWT_never == FALSE

\* isJWT, as _handleResponse computes it from config.request.form
isJWT == config.grant_type = JWT_GRANT_TYPE

\* Variant: the Error a strategy returns is not substituted; the attempt's
\* error is propagated whatever the non-number is.
_retry_ignoreStrategyError(m, err, sr) ==
    IF m.numRetries < config.numMaxRetries
    THEN LET m1 == [m EXCEPT !.numRetries = @ + 1]
             m2 == retryStrategy(m1, err, sr)
         IN
         IF config.hasRetryStrategy
         THEN CASE sr = "throws" -> throw(m2)
                [] sr = "number" ->
                     return(setTimeout(m2,
                                Delay("strategy", <<StrategyDelayMS>>)))
                [] OTHER -> return(_finish(m2, err, NullResponse))
         ELSE IF err.response.kind # "null" /\ err.response.retryAfter
              THEN return(setTimeout(m1,
                       Delay("retry-after", <<RetryAfterSeconds * 1000>>)))
              ELSE return(setTimeout(m1,
                       getRetryTimeout(m1.numRetries, config.retryIntervalMS)))
    ELSE return(_finish(m, [err EXCEPT !.maxRetriesExceeded = TRUE],
                        NullResponse))

\* Variant: a retry-after header is honoured before the strategy is asked.
_retry_headerFirst(m, err, sr) ==
    IF m.numRetries < config.numMaxRetries
    THEN LET m1 == [m EXCEPT !.numRetries = @ + 1]
             m2 == retryStrategy(m1, err, sr)
         IN
         IF err.response.kind # "null" /\ err.response.retryAfter
         THEN return(setTimeout(m1,
                  Delay("retry-after", <<RetryAfterSeconds * 1000>>)))
         ELSE IF config.hasRetryStrategy
              THEN CASE sr = "throws" -> throw(m2)
                     [] sr = "number" ->
                          return(setTimeout(m2,
                                     Delay("strategy", <<StrategyDelayMS>>)))
                     [] sr = "Error" ->
                          return(_finish(m2, NewError("strategy"),
                                         NullResponse))
                     [] OTHER -> return(_finish(m2, err, NullResponse))
              ELSE return(setTimeout(m1,
                       getRetryTimeout(m1.numRetries, config.retryIntervalMS)))
    ELSE return(_finish(m, [err EXCEPT !.maxRetriesExceeded = TRUE],
                        NullResponse))

\* Variant: the `return` after _finish in the strategy branch is missing, so
\* a vetoed retry is finished and scheduled as well.
_retry_noReturn(m, err, sr) ==
    IF m.numRetries < config.numMaxRetries
    THEN LET m1 == [m EXCEPT !.numRetries = @ + 1]
             m2 == retryStrategy(m1, err, sr)
         IN
         IF config.hasRetryStrategy
         THEN CASE sr = "throws" -> throw(m2)
                [] sr = "number" ->
                     return(setTimeout(m2,
                                Delay("strategy", <<StrategyDelayMS>>)))
                [] sr = "Error" ->
                     return(setTimeout(
                         _finish(m2, NewError("strategy"), NullResponse),
                         Delay("strategy", <<StrategyDelayMS>>)))
                [] OTHER ->
                     return(setTimeout(_finish(m2, err, NullResponse),
                                       Delay("strategy", <<StrategyDelayMS>>)))
         ELSE IF err.response.kind # "null" /\ err.response.retryAfter
              THEN return(setTimeout(m1,
                       Delay("retry-after", <<RetryAfterSeconds * 1000>>)))
              ELSE return(setTimeout(m1,
                       getRetryTimeout(m1.numRetries, config.retryIntervalMS)))
    ELSE return(_finish(m, [err EXCEPT !.maxRetriesExceeded = TRUE],
                        NullResponse))

\* Variant: the retry budget is compared with <= instead of <.
_retry_offByOne(m, err, sr) ==
    IF m.numRetries <= config.numMaxRetries
    THEN LET m1 == [m EXCEPT !.numRetries = @ + 1]
             m2 == retryStrategy(m1, err, sr)
         IN
         IF config.hasRetryStrategy
         THEN CASE sr = "throws" -> throw(m2)
                [] sr = "number" ->
                     return(setTimeout(m2,
                                Delay("strategy", <<StrategyDelayMS>>)))
                [] sr = "Error" ->
                     return(_finish(m2, NewError("strategy"), NullResponse))
                [] OTHER -> return(_finish(m2, err, NullResponse))
         ELSE IF err.response.kind # "null" /\ err.response.retryAfter
              THEN return(setTimeout(m1,
                       Delay("retry-after", <<RetryAfterSeconds * 1000>>)))
              ELSE return(setTimeout(m1,
                       getRetryTimeout(m1.numRetries, config.retryIntervalMS)))
    ELSE return(_finish(m, [err EXCEPT !.maxRetriesExceeded = TRUE],
                        NullResponse))

\* _retry(err); sr is what the strategy does if it is called.
_retry(m, err, sr) ==
    IF m.numRetries < config.numMaxRetries
    THEN LET m1 == [m EXCEPT !.numRetries = @ + 1]
             m2 == retryStrategy(m1, err, sr)
         IN
         IF config.hasRetryStrategy
         THEN CASE sr = "throws" -> throw(m2)
                [] sr = "number" ->
                     return(setTimeout(m2,
                                Delay("strategy", <<StrategyDelayMS>>)))
                [] sr = "Error" ->
                     return(_finish(m2, NewError("strategy"), NullResponse))
                [] OTHER -> return(_finish(m2, err, NullResponse))
         ELSE IF err.response.kind # "null" /\ err.response.retryAfter
              THEN return(setTimeout(m1,
                       Delay("retry-after", <<RetryAfterSeconds * 1000>>)))
              ELSE return(setTimeout(m1,
                       getRetryTimeout(m1.numRetries, config.retryIntervalMS)))
    ELSE return(_finish(m, [err EXCEPT !.maxRetriesExceeded = TRUE],
                        NullResponse))

\* Variant: every response with an error status (>= 400) is made an error,
\* not only the temporary ones.
_handleResponse_anyErrorStatus(m, err, resp, lt, sr) ==
    IF err.kind = "null" /\ resp.kind = "null"
    THEN throw(m)    \* response.status of null: a TypeError
    ELSE
    LET err1 == IF err.kind = "null" /\ resp.status >= 400
                THEN NewError("temporary")
                ELSE err
    IN  IF err1.kind # "null"
        THEN LET err2 == [err1 EXCEPT !.hasRequest = TRUE]
                 err3 == IF resp.kind # "null"
                         THEN [err2 EXCEPT !.response = resp,
                                           !.status = resp.status]
                         ELSE err2
                 m1 == emit(m, err3, NullResponse)
             IN  IF lt
                 THEN throw(m1)
                 ELSE IF isRetryable /\ ~ isJWT
                      THEN _retry(m1, err3, sr)
                      ELSE return(_finish(m1, err3, NullResponse))
        ELSE LET m1 == emit(m, NullError, resp)
             IN  IF lt
                 THEN throw(m1)
                 ELSE return(_finish(m1, NullError, resp))

\* _handleResponse(err, response); lt: a 'response' listener throws during
\* the emit; sr: what the strategy does if it is called.
\* Variant: the status of a missing response is read null-safely
\* (response?.status), so handling a falsy exception ends in the success path.
_handleResponse_nullSafe(m, err, resp, lt, sr) ==
    LET err1 == IF err.kind = "null" /\ isTemporaryError(resp.status)
                THEN NewError("temporary")
                ELSE err
    IN  IF err1.kind # "null"
        THEN LET err2 == [err1 EXCEPT !.hasRequest = TRUE]
                 err3 == IF resp.kind # "null"
                         THEN [err2 EXCEPT !.response = resp,
                                           !.status = resp.status]
                         ELSE err2
                 m1 == emit(m, err3, NullResponse)
             IN  IF lt
                 THEN throw(m1)
                 ELSE IF isRetryable /\ ~ isJWT
                      THEN _retry(m1, err3, sr)
                      ELSE return(_finish(m1, err3, NullResponse))
        ELSE LET m1 == emit(m, NullError, resp)
             IN  IF lt
                 THEN throw(m1)
                 ELSE return(_finish(m1, NullError, resp))

\* Variant: on success the response is handed to _finish before it is
\* emitted, so a listener can raise after the operation was finalized.
_handleResponse_finishFirst(m, err, resp, lt, sr) ==
    IF err.kind = "null" /\ resp.kind = "null"
    THEN throw(m)    \* response.status of null: a TypeError
    ELSE
    LET err1 == IF err.kind = "null" /\ isTemporaryError(resp.status)
                THEN NewError("temporary")
                ELSE err
    IN  IF err1.kind # "null"
        THEN LET err2 == [err1 EXCEPT !.hasRequest = TRUE]
                 err3 == IF resp.kind # "null"
                         THEN [err2 EXCEPT !.response = resp,
                                           !.status = resp.status]
                         ELSE err2
                 m1 == emit(m, err3, NullResponse)
             IN  IF lt
                 THEN throw(m1)
                 ELSE IF isRetryable /\ ~ isJWT
                      THEN _retry(m1, err3, sr)
                      ELSE return(_finish(m1, err3, NullResponse))
        ELSE LET m1 == emit(_finish(m, NullError, resp), NullError, resp)
             IN  IF lt
                 THEN throw(m1)
                 ELSE return(m1)

_handleResponse(m, err, resp, lt, sr) ==
    IF err.kind = "null" /\ resp.kind = "null"
    THEN throw(m)    \* response.status of null: a TypeError
    ELSE
    LET err1 == IF err.kind = "null" /\ isTemporaryError(resp.status)
                THEN NewError("temporary")
                ELSE err
    IN  IF err1.kind # "null"
        THEN LET err2 == [err1 EXCEPT !.hasRequest = TRUE]
                 err3 == IF resp.kind # "null"
                         THEN [err2 EXCEPT !.response = resp,
                                           !.status = resp.status]
                         ELSE err2
                 m1 == emit(m, err3, NullResponse)
             IN  IF lt
                 THEN throw(m1)
                 ELSE IF isRetryable /\ ~ isJWT
                      THEN _retry(m1, err3, sr)
                      ELSE return(_finish(m1, err3, NullResponse))
        ELSE LET m1 == emit(m, NullError, resp)
             IN  IF lt
                 THEN throw(m1)
                 ELSE return(_finish(m1, NullError, resp))

\* The continuation of execute after `await axios(...)` in callback mode:
\* try { _handleResponse(null, response) } catch (e) { _handleResponse(e) }
\* out is the response obtained, or NullResponse when axios rejected;
\* thrown is the value an exception of the first handling carries: an Error,
\* or NullError for a falsy value (`throw undefined`).
AfterAwaitCallback(m, out, lt1, sr1, thrown, lt2, sr2) ==
    IF out.kind # "null"
    THEN LET r1 == _handleResponse(m, NullError, out, lt1, sr1) IN
         IF r1.threw
         THEN _handleResponse(r1.m, thrown, NullResponse, lt2, sr2)
         ELSE r1
    ELSE _handleResponse(m, NewError("transport"), NullResponse, lt2, sr2)

\* The continuation of execute after `await axios(...)` in stream mode.
AfterAwaitStream(m, out, lt1, thrown, lt2) ==
    IF out.kind # "null"
    THEN LET m1 == emit(m, NullError, out) IN
         IF lt1
         THEN LET m2 == emit([m1 EXCEPT !.raised = TRUE],
                             thrown, NullResponse)
              IN  IF lt2 THEN throw(m2) ELSE return(m2)
         ELSE return(m1)
    ELSE LET m1 == emit(m, NewError("transport"), NullResponse)
         IN  IF lt2 THEN throw(m1) ELSE return(m1)

AfterAwait(m, out, lt1, sr1, thrown, lt2, sr2) ==
    IF request.stream
    THEN AfterAwaitStream(m, out, lt1, thrown, lt2)
    ELSE AfterAwaitCallback(m, out, lt1, sr1, thrown, lt2, sr2)

\* ---------------------------------------------------------------------------
\* Actions
\* ---------------------------------------------------------------------------

Init ==
    /\ config \in Configs
    /\ isRetryable = isRequestRetryable(config)
    /\ callback = "undefined"
    /\ request = [set |-> FALSE, headers |-> NoHeaders, stream |-> FALSE]
    /\ response = NullResponse
    /\ numRetries = 0
    /\ asyncRequestTimer \in {Unset, 0}
    /\ phase = "new"
    /\ inflight = 0
    /\ timers = <<>>
    /\ ticks = <<>>
    /\ delivered = <<>>
    /\ rejected = FALSE
    /\ events = <<>>
    /\ numEvents = 0
    /\ attempts = 0
    /\ numTimers = 0
    /\ outcome = NullResponse
    /\ numFailed = 0
    /\ raised = FALSE
    /\ strategyCalls = <<>>
    /\ now = 0
    /\ executedAt = Unset
    /\ statusCode = NoStatus
    /\ verdict = "none"

\* execute(cb) up to the await: builds this.request and starts the attempt.
executeBody(cb) ==
    /\ callback' = IF cb # "undefined" THEN cb ELSE callback
    /\ asyncRequestTimer' =
          IF callback' # "undefined" /\ asyncRequestTimer = Unset
          THEN now
          ELSE asyncRequestTimer
    /\ request' = [set |-> TRUE, headers |-> config.headers,
                   stream |-> (callback' = "undefined")]
    /\ attempts' = attempts + 1
    /\ inflight' = inflight + 1

\* The caller starts the operation.
Execute(cb) ==
    /\ phase = "new"
    /\ phase' = "started"
    /\ executedAt' = now
    /\ executeBody(cb)
    /\ UNCHANGED <<config, isRetryable, response, numRetries, timers, ticks,
                   delivered, rejected, events, numEvents, numTimers, outcome,
                   numFailed, raised, strategyCalls, now, statusCode,
                   verdict>>

\* The attempt in flight completes and execute resumes after the await.
Resume(out, lt1, sr1, thrown, lt2, sr2) ==
    /\ inflight > 0
    /\ LET r == AfterAwait(Machine, out, lt1, sr1, thrown, lt2, sr2) IN
         /\ numRetries' = r.m.numRetries
         /\ timers' = r.m.timers
         /\ ticks' = r.m.ticks
         /\ events' = r.m.events
         /\ numEvents' = numEvents + Len(r.m.events)
         /\ numTimers' = r.m.numTimers
         /\ raised' = r.m.raised
         /\ delivered' = r.m.delivered
         /\ strategyCalls' = r.m.strategyCalls
         /\ rejected' = (rejected \/ r.threw)
    /\ response' = IF out.kind # "null" THEN out ELSE response
    /\ outcome' = out
    /\ numFailed' = IF out.kind = "null" \/ isTemporaryError(out.status)
                    THEN numFailed + 1
                    ELSE numFailed
    /\ inflight' = inflight - 1
    /\ UNCHANGED <<config, isRetryable, callback, request, asyncRequestTimer,
                   phase, attempts, now, executedAt, statusCode, verdict>>

\* What the strategy can do in this operation; without a configured
\* strategy nothing is called.
StrategyChoices ==
    IF config.hasRetryStrategy THEN StrategyResults ELSE {"nonNumber"}

\* axios resolves with a response (validateStatus accepts every status).
\* The handling of the caught exception matters only when the first handling
\* can throw.
AttemptResponds ==
    \E s \in ServerStatuses, ra \in BOOLEAN, lt1 \in BOOLEAN,
       sr1 \in StrategyChoices :
        /\ ra => isTemporaryError(s)
        /\ IF lt1 \/ sr1 = "throws"
           THEN \E thrown \in {NewError("thrown"), NullError},
                   lt2 \in BOOLEAN, sr2 \in StrategyChoices :
                    Resume(Response(s, ra), lt1, sr1, thrown, lt2, sr2)
           ELSE Resume(Response(s, ra), lt1, sr1, NullError, FALSE, "nonNumber")

\* axios rejects: no response was obtained.
AttemptFails ==
    \E lt2 \in BOOLEAN, sr2 \in StrategyChoices :
        Resume(NullResponse, FALSE, "nonNumber", NullError, lt2, sr2)

\* A retry timer expires and calls execute() without arguments.
TimerFires ==
    \E i \in 1..Len(timers) :
        /\ timers' = SubSeq(timers, 1, i - 1) \o SubSeq(timers, i + 1, Len(timers))
        /\ executeBody("undefined")
        /\ UNCHANGED <<config, isRetryable, response, numRetries, phase, ticks,
                       delivered, rejected, events, numEvents, numTimers,
                       outcome, numFailed, raised, strategyCalls, now,
                       executedAt,                        statusCode, verdict>>

\* The next-tick task queued by _finish runs and invokes the callback.
Tick ==
    /\ ticks # <<>>
    /\ LET t == Head(ticks) IN
         delivered' = Append(delivered,
             IF t.err.kind # "null"
             THEN [err |-> t.err, response |-> NullResponse]
             ELSE [err |-> NullError, response |-> t.response])
    /\ ticks' = Tail(ticks)
    /\ UNCHANGED <<config, isRetryable, callback, request, response,
                   numRetries, asyncRequestTimer, phase, inflight, timers,
                   rejected, events, numEvents, attempts, numTimers, outcome,
                   numFailed, raised, strategyCalls, now, executedAt,
                   statusCode, verdict>>

Next ==
    \/ \E cb \in {"undefined", "callback"} : Execute(cb)
    \/ AttemptResponds
    \/ AttemptFails
    \/ TimerFires
    \/ Tick

Spec == Init /\ [][Next]_vars

\* ---------------------------------------------------------------------------
\* The instance in a process where time passes and other instances execute
\* ---------------------------------------------------------------------------

\* A fresh process: no instance has executed yet. The instance has a retry
\* strategy and a plain retryable request.
InitShared ==
    /\ Init
    /\ asyncRequestTimer = Unset
    /\ config.hasRetryStrategy
    /\ ~ config.formData
    /\ config.grant_type = "none"
    /\ config.headers = NoHeaders

\* Time passes.
Advance ==
    /\ now < MaxClock
    /\ now' = now + 1
    /\ UNCHANGED <<config, isRetryable, callback, request, response,
                   numRetries, asyncRequestTimer, phase, inflight, timers,
                   ticks, delivered, rejected, events, numEvents, attempts,
                   numTimers, outcome, numFailed, raised, strategyCalls,
                   executedAt, statusCode, verdict>>

\* Another APIRequest instance of the process executes with a callback: of
\* the state kept here it touches only the module-level asyncRequestTimer.
OtherExecute ==
    /\ asyncRequestTimer' =
          IF asyncRequestTimer = Unset THEN now ELSE asyncRequestTimer
    /\ UNCHANGED <<config, isRetryable, callback, request, response,
                   numRetries, phase, inflight, timers, ticks, delivered,
                   rejected, events, numEvents, attempts, numTimers, outcome,
                   numFailed, raised, strategyCalls, now, executedAt,
                   statusCode, verdict>>

NextShared ==
    \/ Next
    \/ Advance
    \/ OtherExecute

SpecShared == InitShared /\ [][NextShared]_vars

\* ---------------------------------------------------------------------------
\* Exploration of the classifier on every status code
\* ---------------------------------------------------------------------------

InitClassifier ==
    /\ config = [numMaxRetries |-> 0, hasRetryStrategy |-> FALSE,
                 formData |-> FALSE, grant_type |-> "none",
                 headers |-> NoHeaders, retryIntervalMS |-> RetryIntervalMS]
    /\ isRetryable = isRequestRetryable(config)
    /\ callback = "undefined"
    /\ request = [set |-> FALSE, headers |-> NoHeaders, stream |-> FALSE]
    /\ response = NullResponse
    /\ numRetries = 0
    /\ asyncRequestTimer = Unset
    /\ phase = "new"
    /\ inflight = 0
    /\ timers = <<>>
    /\ ticks = <<>>
    /\ delivered = <<>>
    /\ rejected = FALSE
    /\ events = <<>>
    /\ numEvents = 0
    /\ attempts = 0
    /\ numTimers = 0
    /\ outcome = NullResponse
    /\ numFailed = 0
    /\ raised = FALSE
    /\ strategyCalls = <<>>
    /\ now = 0
    /\ executedAt = Unset
    /\ statusCode \in MinStatus..MaxStatus
    /\ verdict = "none"

Classify ==
    /\ verdict = "none"
    /\ verdict' = IF isTemporaryError(statusCode) THEN "temporary" ELSE "other"
    /\ UNCHANGED <<config, isRetryable, callback, request, response,
                   numRetries, asyncRequestTimer, phase, inflight, timers,
                   ticks, delivered, rejected, events, numEvents, attempts,
                   numTimers, outcome, numFailed, raised, strategyCalls, now,
                       executedAt,                    statusCode>>

NextClassifier == Classify

SpecClassifier == InitClassifier /\ [][NextClassifier]_vars

\* ---------------------------------------------------------------------------
\* Properties
\* ---------------------------------------------------------------------------

Range(q) == {q[i] : i \in 1..Len(q)}

CallbackMode == callback = "callback"

\* The deliveries made or queued, oldest first.
Finalized == delivered \o ticks

\* The latest attempt failed: a temporary-error response or no response.
OutcomeFailed == outcome.kind = "null" \/ isTemporaryError(outcome.status)

\* C1: in callback mode the completion callback is invoked at most once per
\* operation, whatever the attempts' outcomes, the retry policy and the
\* strategy do.
C1_CallbackAtMostOnce == CallbackMode => Len(delivered) <= 1

\* An operation that took several attempts has invoked its callback.
C1_Witness == CallbackMode /\ attempts > 1 /\ Len(delivered) = 1

\* C3: numRetries never exceeds config.numMaxRetries.
C3_RetriesWithinMaximum == numRetries <= config.numMaxRetries

\* The whole retry budget was used and the exhausted error was delivered.
C3_Witness ==
    /\ config.numMaxRetries > 0
    /\ numRetries = config.numMaxRetries
    /\ Len(delivered) = 1
    /\ delivered[1].err.maxRetriesExceeded

\* C5: isTemporaryError is true exactly for 500..599 without 507, and for 408
\* and 429; it is false for 507 and every other status.
C5_Classification ==
    verdict # "none" =>
        ((verdict = "temporary") <=>
            \/ statusCode >= 500 /\ statusCode <= 599 /\ statusCode # 507
            \/ statusCode = 408
            \/ statusCode = 429)

\* 507 has been classified, as not temporary.
C5_Witness == statusCode = 507 /\ verdict = "other"

C4_SensitiveHeadersRedacted ==
    \A e \in Range(events) \cup Range(delivered) :
        e.err.hasRequest =>
            request.headers = cleanSensitiveHeaders(config.headers)

C6_UnlessRaised ==
    (/\ CallbackMode
     /\ outcome.kind = "response"
     /\ outcome.status = INSUFFICIENT_STORAGE
     /\ inflight = 0
     /\ ~ raised) =>
        /\ Finalized = <<[err |-> NullError, response |-> outcome]>>
        /\ timers = <<>>

\* C2: every callback-mode operation ends with its callback invoked: when
\* no attempt is in flight, no retry timer is pending and no next-tick task
\* is queued, the callback has been invoked.
C2_OutcomeDelivered ==
    (CallbackMode /\ inflight = 0 /\ timers = <<>> /\ ticks = <<>>) =>
        Len(delivered) >= 1

\* The same, for operations in which no exception left execute.
C2_UnlessRejected ==
    (CallbackMode /\ inflight = 0 /\ timers = <<>> /\ ticks = <<>>
        /\ ~ rejected) =>
        Len(delivered) = 1

\* C7: the step that handles a response not classified temporary sets no
\* retry timer, leaves numRetries alone and queues (null, response) for the
\* callback.
C7_NonTemporaryIsLast ==
    [][(/\ CallbackMode
        /\ inflight' < inflight
        /\ outcome'.kind = "response"
        /\ ~ isTemporaryError(outcome'.status)) =>
            /\ timers' = timers
            /\ numTimers' = numTimers
            /\ numRetries' = numRetries
            /\ ticks' = Append(ticks, [err |-> NullError,
                                       response |-> outcome'])]_vars

\* The same, for steps in which no listener raised.
C7_UnlessRaised ==
    [][(/\ CallbackMode
        /\ inflight' < inflight
        /\ outcome'.kind = "response"
        /\ ~ isTemporaryError(outcome'.status)
        /\ ~ raised') =>
            /\ timers' = timers
            /\ numTimers' = numTimers
            /\ numRetries' = numRetries
            /\ ticks' = Append(ticks, [err |-> NullError,
                                       response |-> outcome'])]_vars

\* The operation is retry-eligible: not a formData request, not a JWT grant.
RetryEligible == isRetryable /\ ~ isJWT

\* C8: a retry-eligible operation without a strategy whose attempts all
\* failed makes numMaxRetries + 1 attempts and then invokes the callback
\* once, with the last attempt's error: maxRetriesExceeded is set and the
\* status is that of the last response.
C8_ExhaustedRetries ==
    (/\ CallbackMode
     /\ RetryEligible
     /\ ~ config.hasRetryStrategy
     /\ numFailed = attempts
     /\ Len(delivered) >= 1) =>
        /\ attempts = config.numMaxRetries + 1
        /\ Len(delivered) = 1
        /\ delivered[1].err.kind \in {"temporary", "transport"}
        /\ delivered[1].err.maxRetriesExceeded
        /\ delivered[1].err.status = outcome.status

\* The same, for operations in which no listener raised.
C8_UnlessRaised ==
    (/\ CallbackMode
     /\ RetryEligible
     /\ ~ config.hasRetryStrategy
     /\ numFailed = attempts
     /\ Len(delivered) >= 1
     /\ ~ raised) =>
        /\ attempts = config.numMaxRetries + 1
        /\ Len(delivered) = 1
        /\ delivered[1].err.kind \in {"temporary", "transport"}
        /\ delivered[1].err.maxRetriesExceeded
        /\ delivered[1].err.status = outcome.status

\* C9: when the attempts before the latest one all failed and the latest
\* one obtained a response that is not temporary, then once that response
\* has been handled there were k + 1 attempts and k scheduled delays, no
\* timer is pending, and the only delivery is (null, response).
C9_RecoveryAfterFailures ==
    (/\ CallbackMode
     /\ RetryEligible
     /\ inflight = 0
     /\ attempts >= 1
     /\ numFailed = attempts - 1
     /\ outcome.kind = "response"
     /\ ~ isTemporaryError(outcome.status)) =>
        /\ timers = <<>>
        /\ numTimers = attempts - 1
        /\ Finalized = <<[err |-> NullError, response |-> outcome]>>

\* The same, for operations in which no listener or strategy raised.
C9_UnlessRaised ==
    (/\ CallbackMode
     /\ RetryEligible
     /\ inflight = 0
     /\ attempts >= 1
     /\ numFailed = attempts - 1
     /\ outcome.kind = "response"
     /\ ~ isTemporaryError(outcome.status)
     /\ ~ raised) =>
        /\ timers = <<>>
        /\ numTimers = attempts - 1
        /\ Finalized = <<[err |-> NullError, response |-> outcome]>>

Last(q) == q[Len(q)]

\* C12: when the retry strategy returns a value that is not a number, no
\* attempt is in flight and no timer is pending, and the operation is
\* finalized at once with exactly one delivery: the Error the strategy
\* returned if it returned one, otherwise the error the strategy was called
\* with, which is the attempt's own error when no listener or strategy
\* raised. The vetoing call is the last call of the strategy.
C12_StrategyVeto ==
    \A i \in 1..Len(strategyCalls) :
        LET c == strategyCalls[i] IN
        /\ i < Len(strategyCalls) => c.result = "throws"
        /\ c.result \in {"nonNumber", "Error"} =>
              /\ inflight = 0
              /\ timers = <<>>
              /\ Finalized =
                    <<[err |-> IF c.result = "Error"
                               THEN NewError("strategy")
                               ELSE c.error,
                       response |-> NullResponse]>>
              /\ c.error.kind # "null"
              /\ ~ raised =>
                    /\ c.error.kind \in {"temporary", "transport"}
                    /\ c.error.status = outcome.status

\* With retries still allowed, the strategy returned its own Error after the
\* first attempt and the callback received that Error.
C12_Witness ==
    /\ strategyCalls # <<>>
    /\ Last(strategyCalls).result = "Error"
    /\ attempts = 1
    /\ numRetries < config.numMaxRetries
    /\ delivered = <<[err |-> NewError("strategy"), response |-> NullResponse]>>

\* C13: the callback is never invoked within the step that handles an
\* attempt's outcome: every step that invokes it starts no attempt, completes
\* none and emits no event, and it runs the oldest next-tick task, which an
\* earlier step queued, with that task's arguments.
C13_DeliveryDeferred ==
    [][delivered' # delivered =>
          /\ inflight' = inflight
          /\ attempts' = attempts
          /\ numEvents' = numEvents
          /\ numRetries' = numRetries
          /\ ticks # <<>>
          /\ ticks' = Tail(ticks)
          /\ Len(delivered') = Len(delivered) + 1
          /\ Last(delivered').err = Head(ticks).err
          /\ Head(ticks).err.kind = "null" =>
                Last(delivered').response = Head(ticks).response]_vars

\* The retries were exhausted by the third attempt's failure and the error
\* has been delivered by the next-tick task.
C13_Witness ==
    /\ attempts = 3
    /\ ticks = <<>>
    /\ Len(delivered) = 1
    /\ delivered[1].err.maxRetriesExceeded

\* C14: every delivery, queued or made, has one of two shapes: an error alone,
\* or no error and a response; never both and never neither. When nothing
\* raised, the error shape is the one of a failed outcome and the response
\* delivered is the outcome itself.
C14_DeliveryShape ==
    \A d \in Range(Finalized) :
        /\ \/ d.err.kind # "null" /\ d.response = NullResponse
           \/ d.err = NullError /\ d.response.kind # "null"
        /\ ~ raised =>
              /\ OutcomeFailed <=> d.err.kind # "null"
              /\ ~ OutcomeFailed => d.response = outcome

\* A response was obtained and a listener raised while it was handled: the
\* callback received the exception alone, without the response.
C14_Witness ==
    /\ outcome.kind # "null"
    /\ raised
    /\ Len(delivered) = 1
    /\ delivered[1].err.kind = "thrown"
    /\ delivered[1].response = NullResponse

\* C15: in callback mode each completed attempt's outcome is emitted as
\* exactly one 'response' event, so the number of events emitted equals the
\* number of completed attempts.
C15_OneEventPerAttempt ==
    CallbackMode => numEvents = attempts - inflight

\* In callback-mode runs in which no listener and no strategy raised, the
\* number of events emitted equals the number of completed attempts, and the
\* step that handles an outcome emits exactly one event, which carries the
\* error that is queued for the callback in that step.
C15_UnlessRaised ==
    (CallbackMode /\ ~ raised) =>
        /\ numEvents = attempts - inflight
        /\ Len(events) <= 1
        /\ (events # <<>> /\ Finalized # <<>>
              /\ Last(Finalized).err.kind \notin {"null", "strategy"}) =>
                 /\ Last(events).err.kind = Last(Finalized).err.kind
                 /\ Last(events).err.status = Last(Finalized).err.status

\* execute was called without a callback on an instance that stores none.
StreamMode == phase = "started" /\ callback = "undefined"

\* C16: in stream mode exactly one attempt is made and, once it has completed,
\* exactly one 'response' event has been emitted, which carries its outcome;
\* no retry is scheduled, numRetries stays as it was and no callback delivery
\* is queued or made.
C16_StreamSingleEvent ==
    StreamMode =>
        /\ attempts = 1
        /\ timers = <<>>
        /\ numTimers = 0
        /\ numRetries = 0
        /\ Finalized = <<>>
        /\ numEvents = attempts - inflight
        /\ inflight = 0 =>
              (events[1].response = outcome /\
                  (outcome.kind = "null" <=> events[1].err.kind = "transport"))

\* In every stream-mode run, raising listeners included: one attempt, no
\* timer, no retry-strategy call, numRetries 0, no delivery; the first event
\* of the completed attempt carries its outcome and a second event, if any,
\* carries the exception a listener raised on the first.
C16_StreamNeverRetries ==
    StreamMode =>
        /\ attempts = 1
        /\ timers = <<>>
        /\ numTimers = 0
        /\ numRetries = 0
        /\ strategyCalls = <<>>
        /\ Finalized = <<>>
        /\ numEvents <= 2
        /\ inflight = 0 =>
              /\ events # <<>>
              /\ events[1].response = outcome
              /\ Len(events) = 2 =>
                    raised /\ events[2].err.kind \in {"thrown", "null"}

\* In stream-mode runs in which no listener raised, the claim of C16 holds.
C16_UnlessRaised ==
    (StreamMode /\ ~ raised) => C16_StreamSingleEvent

\* C17: in a step that schedules a retry, the delay of the timer is the number
\* the strategy returned when a strategy is configured, whether or not the
\* error's response has a retry-after header; without a strategy it is the
\* retry-after value times 1000 when the error handled has a response with
\* that header; otherwise it is the default backoff of the incremented
\* numRetries and config.retryIntervalMS. Such a step happens only with
\* attempts remaining and increments numRetries.
C17_DelayPriority ==
    [][numTimers' > numTimers =>
          LET err == Last(events').err IN
          /\ numTimers' = numTimers + 1
          /\ timers' = <<IF config.hasRetryStrategy
                         THEN Delay("strategy", <<StrategyDelayMS>>)
                         ELSE IF err.response.kind # "null"
                                    /\ err.response.retryAfter
                              THEN Delay("retry-after",
                                         <<RetryAfterSeconds * 1000>>)
                              ELSE getRetryTimeout(numRetries',
                                                   config.retryIntervalMS)>>
          /\ numRetries < config.numMaxRetries
          /\ numRetries' > numRetries
          /\ config.hasRetryStrategy =>
                /\ strategyCalls' # <<>>
                /\ Last(strategyCalls').result = "number"
                /\ Last(strategyCalls').error = err
                /\ Last(strategyCalls').numRetryAttempts = numRetries']_vars

\* A strategy is configured, the failed attempt's response had a retry-after
\* header, and the timer pending is the strategy's.
C17_Witness ==
    /\ config.hasRetryStrategy
    /\ outcome.kind # "null"
    /\ outcome.retryAfter
    /\ ~ raised
    /\ timers = <<Delay("strategy", <<StrategyDelayMS>>)>>

\* C18: at every moment at most one of an attempt in flight and a pending
\* retry timer exists for the operation, and never two of either.
C18_NoOverlap == inflight + Len(timers) <= 1

\* C18, on steps: an attempt starts only when none is in flight and no other
\* timer is pending; a retry attempt starts by the expiry of the one pending
\* timer, which the handling of the previous attempt's outcome had set.
C18_AttemptsSequential ==
    [][attempts' > attempts =>
          /\ attempts' = attempts + 1
          /\ inflight = 0
          /\ inflight' = 1
          /\ timers' = <<>>
          /\ attempts > 0 => (Len(timers) = 1 /\ numTimers = attempts)]_vars

\* The third attempt is in flight after two retry delays have expired.
C18_Witness ==
    /\ attempts = 3
    /\ inflight = 1
    /\ numTimers = 2
    /\ timers = <<>>

\* C20: once a delivery has been handed to _finish, no attempt is in flight
\* and no retry timer is pending.
C20_FinalizedIsFinal == Finalized # <<>> => (inflight = 0 /\ timers = <<>>)

\* C20, on steps: after _finish was called the operation starts no attempt,
\* sets no timer, emits no event, calls no strategy and calls _finish no
\* more; all that is left is the delivery of what was queued.
C20_NothingAfterFinish ==
    [][Finalized # <<>> =>
          /\ attempts' = attempts
          /\ inflight' = 0
          /\ timers' = <<>>
          /\ numTimers' = numTimers
          /\ numEvents' = numEvents
          /\ numRetries' = numRetries
          /\ Finalized' = Finalized]_vars

\* After one retry the second attempt succeeded and its response has been
\* delivered.
C20_Witness ==
    /\ attempts = 2
    /\ numTimers = 1
    /\ numEvents = 2
    /\ Len(delivered) = 1
    /\ delivered[1].err = NullError
    /\ delivered[1].response.status = 200

\* C19: whatever other instances do, the retry strategy of this instance is
\* called with the values it gets when the instance runs alone: the attempt
\* number, numMaxRetries, retryIntervalMS, and as totalElapsedTimeMS the time
\* elapsed since this instance's own execute.
C19_StrategyInputsAsAlone ==
    \A i \in 1..Len(strategyCalls) :
        LET c == strategyCalls[i] IN
        /\ c.numMaxRetries = config.numMaxRetries
        /\ c.retryIntervalMS = config.retryIntervalMS
        /\ c.numRetryAttempts <= numRetries
        /\ c.totalElapsedTimeMS = c.calledAt - executedAt

\* What the code passes as totalElapsedTimeMS: the time elapsed since the
\* first execute with a callback of any instance of the process, which is
\* not later than this instance's own.
C19_ElapsedSinceProcessFirst ==
    \A i \in 1..Len(strategyCalls) :
        LET c == strategyCalls[i] IN
        /\ asyncRequestTimer # Unset
        /\ asyncRequestTimer <= executedAt
        /\ c.totalElapsedTimeMS = c.calledAt - asyncRequestTimer

\* The process-wide timestamp is set once and never changed afterwards.
C19_TimerSetOnce ==
    [][asyncRequestTimer # Unset =>
          asyncRequestTimer' = asyncRequestTimer]_vars

\* What handling one attempt's outcome exactly once means for the step in
\* which execute resumes after the await: numRetries rises by at most 1, at
\* most one event is emitted, the strategy is called at most once, and a
\* response that is not a temporary error is emitted as a response, is not
\* counted as a retry and sets no timer.
HandledOnce ==
    /\ numRetries' <= numRetries + 1
    /\ numEvents' <= numEvents + 1
    /\ Len(strategyCalls') <= 1
    /\ (outcome'.kind # "null" /\ ~ isTemporaryError(outcome'.status)) =>
          /\ numRetries' = numRetries
          /\ numTimers' = numTimers
          /\ \A e \in Range(events') : e.err = NullError

\* C21: each attempt's outcome is handled exactly once, also when a listener
\* or the retry strategy raises while it is handled.
C21_HandledOnce ==
    [][inflight' < inflight => HandledOnce]_vars

\* In runs in which no listener and no strategy has raised, each attempt's
\* outcome is handled exactly once.
C21_UnlessRaised ==
    [][(inflight' < inflight /\ ~ raised') => HandledOnce]_vars

\* A 200 response was obtained, a listener raised on its event, and the
\* operation waits for a retry timer with numRetries incremented.
C21_SuccessRetried ==
    /\ CallbackMode
    /\ outcome.kind # "null"
    /\ outcome.status = 200
    /\ Len(events) = 2
    /\ numRetries = 1
    /\ Len(timers) = 1

\* The strategy raised on its first call and was called again for the same
\* attempt: numRetries rose by 2 for one attempt.
C21_CountedTwice ==
    /\ attempts = 1
    /\ inflight = 0
    /\ Len(strategyCalls) = 2
    /\ numRetries = 2

====
